---- MODULE Spec2Model ----
(***************************************************************************)
(* Model of src/src/app.py: the seismic-data ETL script.                    *)
(*                                                                         *)
(* The module is either run as a script (__name__ = "__main__": import,     *)
(* fetch, process, summary, save, info) or imported as a library and its    *)
(* functions called directly (process_data, then save_to_csv of what it    *)
(* returned; get_continent).                                               *)
(*                                                                         *)
(* Numbers (magnitude, depth, latitude, longitude, noise) are fixed-point:  *)
(* the integer v stands for the real v / Res.  A literal n of the source   *)
(* is Num(n) = n * Res.                                                     *)
(***************************************************************************)
EXTENDS Integers, Sequences, FiniteSets, TLC

\* Fixed-point resolution: a number is a multiple of 1/Res.
Res == 10

\* Longest feature list of a multi-feature collection.
MaxFeatures == 2

Num(n) == n * Res

VARIABLES
    name,       \* __name__: "__main__" (script run) or "app" (imported)
    pc,         \* position of the interpreter
    dirExists,  \* whether DATA_DIR exists on disk
    files,      \* DATA_DIR / filename -> file
    files0,     \* the files when the interpreter started (history)
    reply,      \* what the network gave the one HTTP GET (history)
    raw_data,   \* the driver's raw_data, or process_data's argument
    df,         \* the table process_data returned
    console,    \* what was printed, in order
    calls,      \* the functions called so far, in order (history)
    error,      \* the exception that ended the run, or "none"
    writes,     \* number of to_csv attempts (history)
    saved,      \* the last save_to_csv call: filename and the write's fate (history)
    arg,        \* get_continent's arguments <<lat, lon>>
    ret         \* get_continent's result

vars == <<name, pc, dirExists, files, files0, reply, raw_data, df, console,
          calls, error, writes, saved, arg, ret>>

-----------------------------------------------------------------------------
(* Python values *)

NaN == "NaN"

Return(v) == [raised |-> FALSE, exc |-> "none", value |-> v]
Raise(e, v) == [raised |-> TRUE, exc |-> e, value |-> v]

\* JSON documents response.json() can produce, as Python values.
None == [kind |-> "None", features |-> <<>>]
EmptyDict == [kind |-> "empty_dict", features |-> <<>>]
NoFeaturesKey == [kind |-> "no_features", features |-> <<>>]
Collection(fs) == [kind |-> "collection", features |-> fs]
Unbound == [kind |-> "unbound", features |-> <<>>]

\* Python truth value of a document: None and {} are falsy, a dict with at
\* least one key is truthy (also {'features': []}).
Truthy(d) == d.kind \in {"no_features", "collection"}

-----------------------------------------------------------------------------
(* get_continent *)

\* get_continent with the Europe box tested before the Africa box.
get_continent_europe_first(lat, lon) ==
    IF Num(-120) <= lon /\ lon <= Num(-30) /\ Num(30) <= lat /\ lat <= Num(70)
    THEN "North America"
    ELSE IF Num(-10) <= lon /\ lon <= Num(40) /\ Num(35) <= lat /\ lat <= Num(70)
    THEN "Europe"
    ELSE IF Num(-20) <= lon /\ lon <= Num(50) /\ Num(-35) <= lat /\ lat <= Num(37)
    THEN "Africa"
    ELSE IF Num(60) <= lon /\ lon <= Num(150) /\ Num(5) <= lat /\ lat <= Num(45)
    THEN "Asia"
    ELSE IF Num(110) <= lon /\ lon <= Num(180) /\ Num(-50) <= lat /\ lat <= Num(-10)
    THEN "Australia"
    ELSE IF Num(-90) <= lon /\ lon <= Num(-30) /\ Num(-60) <= lat /\ lat <= Num(15)
    THEN "South America"
    ELSE "Ocean"

get_continent(lat, lon) ==
    IF Num(-120) <= lon /\ lon <= Num(-30) /\ Num(30) <= lat /\ lat <= Num(70)
    THEN "North America"
    ELSE IF Num(-20) <= lon /\ lon <= Num(50) /\ Num(-35) <= lat /\ lat <= Num(37)
    THEN "Africa"
    ELSE IF Num(-10) <= lon /\ lon <= Num(40) /\ Num(35) <= lat /\ lat <= Num(70)
    THEN "Europe"
    ELSE IF Num(60) <= lon /\ lon <= Num(150) /\ Num(5) <= lat /\ lat <= Num(45)
    THEN "Asia"
    ELSE IF Num(110) <= lon /\ lon <= Num(180) /\ Num(-50) <= lat /\ lat <= Num(-10)
    THEN "Australia"
    ELSE IF Num(-90) <= lon /\ lon <= Num(-30) /\ Num(-60) <= lat /\ lat <= Num(15)
    THEN "South America"
    ELSE "Ocean"

-----------------------------------------------------------------------------
(* pandas helpers used by process_data *)

\* pd.cut with right=False: bins closed on the left, [lo, hi).
cut_left_closed(x, bins, labels) ==
    LET hit == {i \in 1..Len(labels) : Num(bins[i]) <= x /\ x < Num(bins[i + 1])}
    IN  IF hit = {} THEN "NaN" ELSE labels[CHOOSE i \in hit : TRUE]

\* pd.cut with include_lowest=True: the first bin takes its left edge too.
cut_include_lowest(x, bins, labels) ==
    LET hit == {i \in 1..Len(labels) :
                    /\ Num(bins[i]) < x \/ (i = 1 /\ Num(bins[1]) = x)
                    /\ x <= Num(bins[i + 1])}
    IN  IF hit = {} THEN "NaN" ELSE labels[CHOOSE i \in hit : TRUE]

\* pd.cut(x, bins, labels) with the defaults right=True, include_lowest=False:
\* label i when bins[i] < x <= bins[i+1], missing when x is in no bin.
cut(x, bins, labels) ==
    LET hit == {i \in 1..Len(labels) : Num(bins[i]) < x /\ x <= Num(bins[i + 1])}
    IN  IF hit = {} THEN NaN ELSE labels[CHOOSE i \in hit : TRUE]

severity_bins == <<0, 3, 5, 7, 10>>
severity_labels == <<"leve", "moderado", "fuerte", "grave">>
depth_bins == <<0, 30, 100, 300, 700>>
depth_labels == <<"superficial", "intermedio", "profundo", "manto">>

\* pd.to_datetime(ms, unit='ms'): epoch milliseconds to a timestamp.
to_datetime(ms) ==
    [day |-> ms \div 86400000,
     hour |-> (ms % 86400000) \div 3600000,
     ms |-> ms % 3600000]

time_of_day(x) == IF x < 6 \/ x >= 18 THEN "noche" ELSE "dia"

\* str.extract(r',\s*([^,]+)$') on a place given as its comma-separated
\* tokens (leading blanks dropped): the last token, when there is a comma
\* and something follows it.
extract_region(place) ==
    IF Len(place) >= 2 /\ place[Len(place)] # "" THEN place[Len(place)] ELSE NaN

RawColumns ==
    <<"time", "magnitude", "place", "depth_km", "longitude", "latitude",
      "type", "status">>

DerivedColumns ==
    <<"region", "severity", "depth_category", "time_of_day", "continent",
      "energy_joules", "coast_distance_km">>

\* pd.DataFrame(): no columns, no rows.
EmptyDataFrame == [bound |-> TRUE, columns |-> <<>>, rows |-> <<>>]
NoDataFrame == [bound |-> FALSE, columns |-> <<>>, rows |-> <<>>]

\* pd.DataFrame(records): the columns are the keys of the records; a list
\* of no records gives a frame with no columns.
DataFrame(records) ==
    [bound |-> TRUE,
     columns |-> IF records = <<>> THEN <<>> ELSE RawColumns,
     rows |-> records]

\* df.empty: some axis has length 0.
empty(d) == Len(d.columns) = 0 \/ Len(d.rows) = 0

Abs(x) == IF x < 0 THEN -x ELSE x

-----------------------------------------------------------------------------
(* process_data *)

\* The exception the loop body (lines 41-52) raises on a feature, "none"
\* when it builds the flat record.  The dict literal evaluates its values
\* in order: time, mag, place, coordinates[2], [0], [1], type, status.
record_error(feature) ==
    LET props == feature.properties
        coords == feature.geometry.coordinates
    IN  IF "time" \notin DOMAIN props THEN "KeyError"
        ELSE IF "mag" \notin DOMAIN props THEN "KeyError"
        ELSE IF "place" \notin DOMAIN props THEN "KeyError"
        ELSE IF Len(coords) < 3 THEN "IndexError"
        ELSE IF "type" \notin DOMAIN props THEN "KeyError"
        ELSE IF "status" \notin DOMAIN props THEN "KeyError"
        ELSE "none"

\* The flat record appended for a feature (lines 43-52).
flat_record(feature) ==
    LET props == feature.properties
        coords == feature.geometry.coordinates
    IN  [time |-> props.time,
         magnitude |-> props.mag,
         place |-> props.place,
         depth_km |-> coords[3],
         longitude |-> coords[1],
         latitude |-> coords[2],
         type |-> props.type,
         status |-> props.status]

\* Lines 57-71 on one row; noise is the row's draw of np.random.normal.
\* energy_joules is kept as its base-10 logarithm 1.5 * magnitude + 4.8, in
\* units of 1 / (10 * Res).
enrich(r, noise) ==
    LET t == to_datetime(r.time)
    IN  [time |-> t,
         magnitude |-> r.magnitude,
         place |-> r.place,
         depth_km |-> r.depth_km,
         longitude |-> r.longitude,
         latitude |-> r.latitude,
         type |-> r.type,
         status |-> r.status,
         region |-> extract_region(r.place),
         severity |-> cut(r.magnitude, severity_bins, severity_labels),
         depth_category |-> cut(r.depth_km, depth_bins, depth_labels),
         time_of_day |-> time_of_day(t.hour),
         continent |-> get_continent(r.latitude, r.longitude),
         energy_joules |-> 15 * r.magnitude + Num(48),
         coast_distance_km |-> Abs(r.depth_km) * 10 + noise]

\* The loop with a malformed feature skipped instead of raising.
build_records_skip(feats) ==
    LET good == SelectSeq(feats, LAMBDA f : record_error(f) = "none")
    IN  Return([i \in 1..Len(good) |-> flat_record(good[i])])

\* The loop of lines 39-52: the flat records, or the first exception.
build_records(feats) ==
    LET bad == {i \in 1..Len(feats) : record_error(feats[i]) # "none"}
    IN  IF bad # {}
        THEN Raise(record_error(feats[CHOOSE i \in bad : \A j \in bad : i <= j]), <<>>)
        ELSE Return([i \in 1..Len(feats) |-> flat_record(feats[i])])

\* The frame with the rows that fall in no bin dropped.
build_frame_dropna(records, noise) ==
    LET rows == [i \in 1..Len(records) |-> enrich(records[i], noise[i])]
    IN  IF records = <<>> THEN Raise("KeyError", NoDataFrame)
        ELSE Return([bound |-> TRUE,
                     columns |-> RawColumns \o DerivedColumns,
                     rows |-> SelectSeq(rows, LAMBDA r :
                                  r.severity # NaN /\ r.depth_category # NaN)])

\* Lines 54-73: the frame of the flat records with the derived columns; the
\* first column access, df['time'], raises KeyError on a frame without
\* columns.
build_frame(records, noise) ==
    LET df0 == DataFrame(records)
    IN  IF \A j \in 1..Len(df0.columns) : df0.columns[j] # "time"
        THEN Raise("KeyError", NoDataFrame)
        ELSE Return([bound |-> TRUE,
                     columns |-> df0.columns \o DerivedColumns,
                     rows |-> [i \in 1..Len(records) |-> enrich(records[i], noise[i])]])

process_data(raw, noise) ==
    IF ~Truthy(raw) THEN Return(EmptyDataFrame)
    ELSE IF raw.kind # "collection" THEN Raise("KeyError", NoDataFrame)
    ELSE LET recs == build_records(raw.features)
         IN  IF recs.raised THEN Raise(recs.exc, NoDataFrame)
             ELSE build_frame(recs.value, noise)

-----------------------------------------------------------------------------
(* save_to_csv *)

DefaultFilename == "earthquake_data.csv"

\* How a cell is written: a missing value as the empty string.
cell(col, v) ==
    IF col \in {"region", "severity", "depth_category"} /\ v = NaN THEN "" ELSE v

\* df.to_csv(path, index=False): the header row, then one row per record,
\* fields in column order.
to_csv(d) ==
    <<d.columns>> \o
    [i \in 1..Len(d.rows) |->
        [j \in 1..Len(d.columns) |-> cell(d.columns[j], d.rows[i][d.columns[j]])]]

NoFile == [exists |-> FALSE, lines |-> <<>>]
File(lines) == [exists |-> TRUE, lines |-> lines]

\* The file system's answer to the write: "ok"; "open" - opening the file
\* for writing fails and the file is untouched; "write" - the file was
\* opened (truncated) and the write fails after `written` lines.
IoKinds == {"ok", "open", "write"}

\* The write opening the file in append mode.
write_file_append(old, d, present, io, written) ==
    IF ~present \/ io = "open" THEN Raise("OSError", old)
    ELSE IF io = "write"
    THEN Raise("OSError", File(old.lines \o SubSeq(to_csv(d), 1, written)))
    ELSE Return(File(old.lines \o to_csv(d)))

\* df.to_csv(output_path, index=False) on the file at that path.
write_file(old, d, present, io, written) ==
    IF ~present \/ io = "open" THEN Raise("OSError", old)
    ELSE IF io = "write" THEN Raise("OSError", File(SubSeq(to_csv(d), 1, written)))
    ELSE Return(File(to_csv(d)))

\* save_to_csv without its try/except: the write's exception leaves it.
save_to_csv_no_except(d, filename, fs, present, io, written) ==
    IF ~empty(d)
    THEN LET w == write_file(fs[filename], d, present, io, written)
         IN  IF w.raised
             THEN [raised |-> TRUE, exc |-> w.exc,
                   files |-> [fs EXCEPT ![filename] = w.value],
                   out |-> <<>>,
                   attempts |-> 1]
             ELSE [raised |-> FALSE, exc |-> "none",
                   files |-> [fs EXCEPT ![filename] = w.value],
                   out |-> <<"Datos guardados en", "Ruta absoluta">>,
                   attempts |-> 1]
    ELSE [raised |-> FALSE, exc |-> "none", files |-> fs,
          out |-> <<"No hay datos para guardar">>, attempts |-> 0]

\* save_to_csv(df, filename) on the files fs: the files and the output
\* afterwards, and whether an exception left the function.
save_to_csv(d, filename, fs, present, io, written) ==
    IF ~empty(d)
    THEN LET w == write_file(fs[filename], d, present, io, written)
         IN  IF w.raised
             THEN [raised |-> FALSE, exc |-> "none",
                   files |-> [fs EXCEPT ![filename] = w.value],
                   out |-> <<"Error al guardar archivo">>,
                   attempts |-> 1]
             ELSE [raised |-> FALSE, exc |-> "none",
                   files |-> [fs EXCEPT ![filename] = w.value],
                   out |-> <<"Datos guardados en", "Ruta absoluta">>,
                   attempts |-> 1]
    ELSE [raised |-> FALSE, exc |-> "none", files |-> fs,
          out |-> <<"No hay datos para guardar">>, attempts |-> 0]

-----------------------------------------------------------------------------
(* fetch_earthquake_data *)

\* An except clause naming the connection failures only.
RequestException_connection_only == {"ConnectionError", "Timeout"}

\* The exception classes `except requests.exceptions.RequestException`
\* catches, among those the three calls of the try block raise.
RequestException == {"ConnectionError", "Timeout", "HTTPError", "JSONDecodeError"}

\* The exception the try block (lines 27-29) raises on a reply, "none" when
\* response.json() returns: requests.get raises on a network failure,
\* raise_for_status on a 4xx or 5xx status, json() on a body that is no JSON.
try_error(r) ==
    IF r.net # "ok" THEN r.net
    ELSE IF 400 <= r.status /\ r.status < 600 THEN "HTTPError"
    ELSE IF ~r.json THEN "JSONDecodeError"
    ELSE "none"

fetch_earthquake_data(r) ==
    LET e == try_error(r)
    IN  IF e = "none" THEN [raised |-> FALSE, exc |-> "none", value |-> r.doc, out |-> <<>>]
        ELSE IF e \in RequestException
        THEN [raised |-> FALSE, exc |-> "none", value |-> None,
              out |-> <<"Error al obtener datos">>]
        ELSE [raised |-> TRUE, exc |-> e, value |-> Unbound, out |-> <<>>]

\* os.makedirs(DATA_DIR, exist_ok=True) at import (line 12): nothing to do
\* when the directory is there, else it is created unless the OS refuses.
makedirs(present, ok) ==
    IF present THEN Return(TRUE)
    ELSE IF ok THEN Return(TRUE)
    ELSE Raise("OSError", FALSE)

\* The driver without its test of raw_data.
main_branch_always(raw) == "process"

\* The test `if raw_data:` of the driver (line 113).
main_branch(raw) == IF Truthy(raw) THEN "process" ELSE "no_data"

-----------------------------------------------------------------------------
(* Inputs *)

Feature(time, mag, place, lon, lat, depth) ==
    [properties |-> [time |-> time, mag |-> mag, place |-> place,
                     type |-> "earthquake", status |-> "reviewed"],
     geometry |-> [coordinates |-> <<lon, lat, depth>>]]

Without(f, key) ==
    [f EXCEPT !.properties = [k \in DOMAIN f.properties \ {key} |-> f.properties[k]]]

ShortCoords(f, n) ==
    [f EXCEPT !.geometry.coordinates = SubSeq(f.geometry.coordinates, 1, n)]

Testville == <<"10km SE of Testville", "Nowhereland">>

F1 == Feature(0, Num(6), Testville, Num(-100), Num(40), Num(15))
F2 == Feature(64800000, Num(11), <<"South of the Fiji Islands">>, Num(0), Num(-80), -5)
F3 == Feature(21599999, Num(3), <<"Crete", "Greece", "">>, Num(25), Num(35), Num(700) + 1)

BinEdgeOffsets == {-1, 0, 1}
MagSamples == {Num(b) + o : b \in {0, 3, 5, 7, 10}, o \in BinEdgeOffsets}
DepthSamples == {Num(b) + o : b \in {0, 30, 100, 300, 700}, o \in BinEdgeOffsets}

Malformed ==
    {Without(F1, k) : k \in {"time", "mag", "place", "type", "status"}}
    \cup {ShortCoords(F1, n) : n \in 0..2}

SingleFeatures ==
    {Feature(0, m, Testville, Num(-100), Num(40), Num(15)) : m \in MagSamples}
    \cup {Feature(0, Num(6), Testville, Num(-100), Num(40), d) : d \in DepthSamples}
    \cup Malformed

BatchFeatures == {F1, F2, F3, Without(F1, "mag"), ShortCoords(F2, 2)}

SeqsUpTo(S, n) == UNION {[1..k -> S] : k \in 0..n}

\* The JSON documents a reply can carry (JSON null is None).
Docs ==
    {None, EmptyDict, NoFeaturesKey}
    \cup {Collection(<<f>>) : f \in SingleFeatures}
    \cup {Collection(fs) : fs \in SeqsUpTo(BatchFeatures, MaxFeatures)}

HttpStatuses == {200, 304, 400, 404, 500, 599}

NoReply == [net |-> "none", status |-> 0, json |-> FALSE, doc |-> Unbound]

Replies ==
    {[net |-> n, status |-> 0, json |-> FALSE, doc |-> Unbound] :
        n \in {"ConnectionError", "Timeout"}}
    \cup {[net |-> "ok", status |-> s, json |-> FALSE, doc |-> Unbound] : s \in HttpStatuses}
    \cup {[net |-> "ok", status |-> s, json |-> TRUE, doc |-> d] : s \in HttpStatuses, d \in Docs}

\* Draws of np.random.normal(50, 20).
NoiseSamples == {Num(30), Num(70)}

Filenames == {DefaultFilename, "otro.csv"}

NoSave == [filename |-> "", io |-> "none"]

\* A file an earlier run left behind.
OldFile == File(to_csv(process_data(Collection(<<Feature(97200000, Num(4), <<"Old">>, 0, 0, Num(10))>>), <<Num(50)>>).value))

LonSamples ==
    {Num(b) + o : b \in {-120, -90, -30, -20, -10, 40, 50, 60, 110, 150, 180},
                  o \in BinEdgeOffsets}
    \cup {Num(-100), Num(0)}
LatSamples ==
    {Num(b) + o : b \in {-60, -50, -35, -10, 5, 15, 30, 35, 37, 45, 70},
                  o \in BinEdgeOffsets}
    \cup {Num(40), Num(-80), Num(0)}

-----------------------------------------------------------------------------
(* The interpreter *)

Init ==
    /\ name \in {"__main__", "app"}
    /\ pc = "import"
    /\ dirExists \in BOOLEAN
    /\ files \in [Filenames -> {NoFile, OldFile}]
    /\ (~dirExists => \A f \in Filenames : files[f] = NoFile)
    /\ files0 = files
    /\ reply = NoReply
    /\ raw_data = Unbound
    /\ df = NoDataFrame
    /\ console = <<>>
    /\ calls = <<>>
    /\ error = "none"
    /\ writes = 0
    /\ saved = NoSave
    /\ arg = <<0, 0>>
    /\ ret = ""

\* Lines 1-22: the module's top level, run on import and on a script run.
Import ==
    /\ pc = "import"
    /\ \E ok \in BOOLEAN :
        LET m == makedirs(dirExists, ok)
        IN  IF m.raised
            THEN /\ pc' = "crashed"
                 /\ error' = m.exc
                 /\ UNCHANGED dirExists
            ELSE /\ pc' = IF name = "__main__" THEN "main" ELSE "lib"
                 /\ dirExists' = m.value
                 /\ UNCHANGED error
    /\ UNCHANGED <<name, files, files0, reply, raw_data, df, console, calls,
                   writes, saved, arg, ret>>

\* Lines 106-111: the banner and the one call of fetch_earthquake_data.
Fetch ==
    /\ pc = "main"
    /\ \E r \in Replies :
        LET f == fetch_earthquake_data(r)
        IN  /\ reply' = r
            /\ calls' = Append(calls, "fetch_earthquake_data")
            /\ console' = console \o <<"=== Sistema ===", "Obteniendo datos">> \o f.out
            /\ IF f.raised
               THEN /\ pc' = "crashed"
                    /\ error' = f.exc
                    /\ UNCHANGED raw_data
               ELSE /\ pc' = "fetched"
                    /\ raw_data' = f.value
                    /\ UNCHANGED error
    /\ UNCHANGED <<name, dirExists, files, files0, df, writes, saved, arg, ret>>

\* Lines 113-115: raw_data is truthy, process_data is called.
MainProcess ==
    /\ pc = "fetched"
    /\ main_branch(raw_data) = "process"
    /\ \E noise \in [1..Len(raw_data.features) -> NoiseSamples] :
        LET p == process_data(raw_data, noise)
        IN  /\ calls' = Append(calls, "process_data")
            /\ console' = Append(console, "Procesando datos")
            /\ IF p.raised
               THEN /\ pc' = "crashed"
                    /\ error' = p.exc
                    /\ UNCHANGED df
               ELSE /\ pc' = "processed"
                    /\ df' = p.value
                    /\ UNCHANGED error
    /\ UNCHANGED <<name, dirExists, files, files0, reply, raw_data, writes, saved, arg, ret>>

\* Lines 125-126: raw_data is falsy, the failure message.
MainNoData ==
    /\ pc = "fetched"
    /\ main_branch(raw_data) = "no_data"
    /\ console' = Append(console, "No se pudieron obtener datos")
    /\ pc' = "done"
    /\ UNCHANGED <<name, dirExists, files, files0, reply, raw_data, df, calls,
                   error, writes, saved, arg, ret>>

\* Lines 117-119: the summary; df['time'] raises KeyError on a frame
\* without that column.
MainSummary ==
    /\ pc = "processed"
    /\ IF \A j \in 1..Len(df.columns) : df.columns[j] # "time"
       THEN /\ pc' = "crashed"
            /\ error' = "KeyError"
            /\ console' = console \o <<"Resumen de datos", "Registros obtenidos">>
       ELSE /\ pc' = "summarised"
            /\ console' = console \o <<"Resumen de datos", "Registros obtenidos",
                                       "Rango temporal">>
            /\ UNCHANGED error
    /\ UNCHANGED <<name, dirExists, files, files0, reply, raw_data, df, calls,
                   writes, saved, arg, ret>>

\* Line 121: save_to_csv(df) with the default filename.
MainSave ==
    /\ pc = "summarised"
    /\ \E io \in IoKinds, written \in 0..Len(df.rows) :
        /\ io # "write" => written = 0
        /\ LET s == save_to_csv(df, DefaultFilename, files, dirExists, io, written)
           IN  /\ calls' = Append(calls, "save_to_csv")
               /\ writes' = writes + s.attempts
               /\ saved' = [filename |-> DefaultFilename, io |-> io]
               /\ files' = s.files
               /\ console' = console \o s.out
               /\ IF s.raised
                  THEN pc' = "crashed" /\ error' = s.exc
                  ELSE pc' = "saved" /\ UNCHANGED error
    /\ UNCHANGED <<name, dirExists, files0, reply, raw_data, df, arg, ret>>

\* Lines 123-124: the final step, the dataset's structure.
MainInfo ==
    /\ pc = "saved"
    /\ console' = console \o <<"Estructura del dataset", "df.info()">>
    /\ pc' = "done"
    /\ UNCHANGED <<name, dirExists, files, files0, reply, raw_data, df, calls,
                   error, writes, saved, arg, ret>>

\* The module imported, process_data called on a document or on None.
LibProcessData ==
    /\ pc = "lib"
    /\ \E d \in Docs :
        \E noise \in [1..Len(d.features) -> NoiseSamples] :
            LET p == process_data(d, noise)
            IN  /\ raw_data' = d
                /\ calls' = Append(calls, "process_data")
                /\ IF p.raised
                   THEN /\ pc' = "lib_raised"
                        /\ error' = p.exc
                        /\ UNCHANGED df
                   ELSE /\ pc' = "lib_processed"
                        /\ df' = p.value
                        /\ UNCHANGED error
    /\ UNCHANGED <<name, dirExists, files, files0, reply, console, writes, saved, arg, ret>>

\* save_to_csv called on the table process_data returned.
LibSaveToCsv ==
    /\ pc = "lib_processed"
    /\ \E filename \in Filenames, io \in IoKinds, written \in 0..Len(df.rows) :
        /\ io # "write" => written = 0
        /\ LET s == save_to_csv(df, filename, files, dirExists, io, written)
           IN  /\ calls' = Append(calls, "save_to_csv")
               /\ writes' = writes + s.attempts
               /\ saved' = [filename |-> filename, io |-> io]
               /\ files' = s.files
               /\ console' = console \o s.out
               /\ IF s.raised
                  THEN pc' = "lib_raised" /\ error' = s.exc
                  ELSE pc' = "lib_done" /\ UNCHANGED error
    /\ UNCHANGED <<name, dirExists, files0, reply, raw_data, df, arg, ret>>

\* get_continent called on a point.
LibGetContinent ==
    /\ pc = "lib"
    /\ \E lat \in LatSamples, lon \in LonSamples :
        /\ arg' = <<lat, lon>>
        /\ ret' = get_continent(lat, lon)
    /\ calls' = Append(calls, "get_continent")
    /\ pc' = "lib_done"
    /\ UNCHANGED <<name, dirExists, files, files0, reply, raw_data, df, console,
                   error, writes, saved>>

Next ==
    \/ Import
    \/ Fetch
    \/ MainProcess
    \/ MainNoData
    \/ MainSummary
    \/ MainSave
    \/ MainInfo
    \/ LibProcessData
    \/ LibSaveToCsv
    \/ LibGetContinent

Spec == Init /\ [][Next]_vars

-----------------------------------------------------------------------------
(* Properties *)

Called(f) == \E i \in 1..Len(calls) : calls[i] = f
Printed(m) == \E i \in 1..Len(console) : console[i] = m
IsMain == name = "__main__"
Raised == pc \in {"crashed", "lib_raised"}

\* process_data has been called and has returned a table.
Processed == Called("process_data") /\ df.bound

\* C1: for an input that is None or a feature collection with no features,
\* process_data returns an empty table without raising, and save_to_csv of
\* that table writes no file and prints only the "no data" message.
C1_EmptyInputEmptyTable ==
    (/\ ~IsMain
     /\ Called("process_data")
     /\ raw_data = None \/ (raw_data.kind = "collection" /\ raw_data.features = <<>>))
    => /\ ~Raised
       /\ df.bound /\ Len(df.rows) = 0
       /\ Called("save_to_csv")
            => files = files0 /\ writes = 0 /\ console = <<"No hay datos para guardar">>

Boxes ==
    <<[label |-> "North America", lon |-> <<-120, -30>>, lat |-> <<30, 70>>],
      [label |-> "Africa", lon |-> <<-20, 50>>, lat |-> <<-35, 37>>],
      [label |-> "Europe", lon |-> <<-10, 40>>, lat |-> <<35, 70>>],
      [label |-> "Asia", lon |-> <<60, 150>>, lat |-> <<5, 45>>],
      [label |-> "Australia", lon |-> <<110, 180>>, lat |-> <<-50, -10>>],
      [label |-> "South America", lon |-> <<-90, -30>>, lat |-> <<-60, 15>>]>>

InBox(b, lat, lon) ==
    /\ Num(b.lon[1]) <= lon /\ lon <= Num(b.lon[2])
    /\ Num(b.lat[1]) <= lat /\ lat <= Num(b.lat[2])

FirstMatch(lat, lon) ==
    LET hit == {i \in 1..Len(Boxes) : InBox(Boxes[i], lat, lon)}
    IN  IF hit = {} THEN "Ocean"
        ELSE Boxes[CHOOSE i \in hit : \A j \in hit : i <= j].label

InAfricaEuropeOverlap(lat, lon) ==
    Num(-10) <= lon /\ lon <= Num(40) /\ Num(35) <= lat /\ lat <= Num(37)

\* C3: get_continent answers every point with the label of the first box
\* containing it, in the order North America, Africa, Europe, Asia,
\* Australia, South America, and with Ocean exactly when no box contains
\* it; a point in both the Africa and the Europe box is Africa, (40, -100)
\* is North America and (-80, 0) is Ocean.  The continent column of
\* process_data is that answer for each row.
C3_FirstMatchWins ==
    /\ Called("get_continent")
        => /\ ret = FirstMatch(arg[1], arg[2])
           /\ ret = "Ocean" <=> \A i \in 1..Len(Boxes) : ~InBox(Boxes[i], arg[1], arg[2])
           /\ InAfricaEuropeOverlap(arg[1], arg[2]) => ret = "Africa"
           /\ arg = <<Num(40), Num(-100)>> => ret = "North America"
           /\ arg = <<Num(-80), Num(0)>> => ret = "Ocean"
    /\ Processed
        => \A i \in 1..Len(df.rows) :
            df.rows[i].continent = FirstMatch(df.rows[i].latitude, df.rows[i].longitude)

C3_Witness ==
    /\ Called("get_continent")
    /\ InAfricaEuropeOverlap(arg[1], arg[2])
    /\ InBox(Boxes[3], arg[1], arg[2])
    /\ ret = "Africa"

\* The label of the inclusive-upper bins (0,30], (30,100], (100,300],
\* (300,700] for a depth inside them.
DepthLabel(d) ==
    IF d <= Num(30) THEN "superficial"
    ELSE IF d <= Num(100) THEN "intermedio"
    ELSE IF d <= Num(300) THEN "profundo"
    ELSE "manto"

\* C4 as stated: every depth d >= 0, d = 0 included, gets exactly one of
\* the four labels.
C4_EveryDepthLabelled ==
    Processed
    => \A i \in 1..Len(df.rows) :
        df.rows[i].depth_km >= 0
        => \E j \in 1..Len(depth_labels) : df.rows[i].depth_category = depth_labels[j]

\* C4 amended: every depth d with 0 < d <= 700 gets the label of its
\* inclusive-upper bin (d = 30 superficial, just above 30 intermedio);
\* d = 0, like every depth outside (0, 700], gets no label.
C4_DepthBins ==
    Processed
    => \A i \in 1..Len(df.rows) :
        LET d == df.rows[i].depth_km
            c == df.rows[i].depth_category
        IN  /\ (0 < d /\ d <= Num(700)) => c = DepthLabel(d)
            /\ (d <= 0 \/ d > Num(700)) => c = NaN
            /\ d = Num(30) => c = "superficial"
            /\ d = Num(30) + 1 => c = "intermedio"

C4_Witness ==
    /\ Processed
    /\ \E i \in 1..Len(df.rows) :
        df.rows[i].depth_km = Num(30) /\ df.rows[i].depth_category = "superficial"

\* C5: every magnitude m in (0, 10] gets exactly one of leve, moderado,
\* fuerte, grave by the inclusive-upper bins (0,3], (3,5], (5,7], (7,10]:
\* an edge value falls in the lower bin, a value just above it in the upper.
C5_SeverityBins ==
    Processed
    => \A i \in 1..Len(df.rows) :
        LET m == df.rows[i].magnitude
            c == df.rows[i].severity
        IN  (0 < m /\ m <= Num(10))
            => /\ \E j \in 1..Len(severity_labels) : c = severity_labels[j]
               /\ c = "leve" <=> m <= Num(3)
               /\ c = "moderado" <=> (Num(3) < m /\ m <= Num(5))
               /\ c = "fuerte" <=> (Num(5) < m /\ m <= Num(7))
               /\ c = "grave" <=> Num(7) < m

C5_Witness ==
    /\ Processed
    /\ \E i \in 1..Len(df.rows) :
        df.rows[i].magnitude = Num(7) /\ df.rows[i].severity = "fuerte"

\* Row r is built from feature f.
BuiltFrom(r, f) ==
    /\ r.time = to_datetime(f.properties.time)
    /\ r.magnitude = f.properties.mag
    /\ r.place = f.properties.place
    /\ r.type = f.properties.type
    /\ r.status = f.properties.status
    /\ r.longitude = f.geometry.coordinates[1]
    /\ r.latitude = f.geometry.coordinates[2]
    /\ r.depth_km = f.geometry.coordinates[3]

\* C6: whenever process_data returns for a feature collection, the table
\* has one row per feature, in the same order, row i built from feature i;
\* rows whose magnitude or depth is in no bin are kept.
C6_NoFiltering ==
    (Processed /\ raw_data.kind = "collection")
    => /\ Len(df.rows) = Len(raw_data.features)
       /\ \A i \in 1..Len(df.rows) : BuiltFrom(df.rows[i], raw_data.features[i])

C6_Witness ==
    /\ Processed
    /\ Len(df.rows) = 2
    /\ df.rows[1].severity = NaN /\ df.rows[1].depth_category = NaN
    /\ df.rows[2].severity # NaN
    /\ df.rows[1].time # df.rows[2].time

\* A feature lacking one of properties.{time,mag,place,type,status} or
\* with fewer than 3 coordinates.
IsMalformed(f) ==
    \/ \E k \in {"time", "mag", "place", "type", "status"} : k \notin DOMAIN f.properties
    \/ Len(f.geometry.coordinates) < 3

HasMalformed(d) ==
    d.kind = "collection" /\ \E i \in 1..Len(d.features) : IsMalformed(d.features[i])

\* C7: one malformed feature makes process_data raise and return no table,
\* and in a driver run save_to_csv is then never called and the files stay
\* as they were.
C7_MalformedAbortsBatch ==
    (Called("process_data") /\ HasMalformed(raw_data))
    => /\ Raised
       /\ error \in {"KeyError", "IndexError"}
       /\ ~df.bound
       /\ ~Called("save_to_csv")
       /\ files = files0

C7_Witness ==
    /\ IsMain
    /\ Called("process_data")
    /\ Len(raw_data.features) = 2
    /\ ~IsMalformed(raw_data.features[1])
    /\ IsMalformed(raw_data.features[2])
    /\ pc = "crashed"
    /\ files[DefaultFilename] = OldFile

\* The file holds exactly table d: the header row, then one row per
\* record in table order, fields in column order.
HoldsTable(file, d) ==
    /\ file.exists
    /\ Len(file.lines) = Len(d.rows) + 1
    /\ file.lines[1] = d.columns
    /\ \A i \in 1..Len(d.rows) :
        /\ Len(file.lines[i + 1]) = Len(d.columns)
        /\ \A j \in 1..Len(d.columns) :
            LET col == d.columns[j]
            IN  IF col \in {"region", "severity", "depth_category"}
                THEN file.lines[i + 1][j] = (IF d.rows[i][col] = NaN THEN "" ELSE d.rows[i][col])
                ELSE file.lines[i + 1][j] = d.rows[i][col]

C8_AfterSave ==
    (Called("save_to_csv") /\ ~empty(df))
    => /\ dirExists
       /\ saved.io = "ok"
            => /\ HoldsTable(files[saved.filename], df)
               /\ \A g \in Filenames \ {saved.filename} : files[g] = files0[g]

C8_Step ==
    /\ (pc = "import" /\ dirExists) => (dirExists' /\ files' = files /\ pc' # "crashed")
    /\ (pc = "import" /\ pc' # "crashed") => dirExists'
    /\ (~Called("save_to_csv") /\ Called("save_to_csv")') => dirExists

\* C8: when save_to_csv is called with a non-empty table the destination
\* directory exists (the import created it if absent; creating it when
\* present changes nothing), and after the write the file at
\* DATA_DIR/filename holds exactly that table, whatever was there before;
\* no other file changes.
C8_WriterOverwrites == [](C8_AfterSave) /\ [][C8_Step]_vars

C8_Witness ==
    /\ Called("save_to_csv")
    /\ saved.io = "ok"
    /\ files0[saved.filename] = OldFile
    /\ Len(df.rows) = 2
    /\ files[saved.filename] # OldFile
    /\ HoldsTable(files[saved.filename], df)

\* C9: an I/O error of the write is caught and logged inside save_to_csv,
\* which returns normally after its one write attempt; the driver goes on
\* to its final step.
C9_WriteFailureSwallowed ==
    /\ writes <= 1
    /\ (Called("save_to_csv") /\ ~empty(df) /\ saved.io # "ok")
        => /\ ~Raised
           /\ error = "none"
           /\ writes = 1
           /\ Printed("Error al guardar archivo")
           /\ ~Printed("Datos guardados en")
           /\ IsMain => /\ pc \in {"saved", "done"}
                        /\ pc = "saved" => ENABLED MainInfo
                        /\ pc = "done" => console[Len(console)] = "df.info()"

C9_Witness ==
    /\ IsMain
    /\ pc = "done"
    /\ saved.io = "write"
    /\ files[DefaultFilename].exists
    /\ Len(files[DefaultFilename].lines) = 1
    /\ Len(df.rows) = 2

DriverOrder == <<"fetch_earthquake_data", "process_data", "save_to_csv">>

\* C10: a driver run is one linear pass: one call of fetch_earthquake_data
\* first, then at most one call of process_data, only on a present result,
\* then at most one call of save_to_csv, only after process_data returned;
\* when the fetch gives None neither is called, the failure message is
\* printed, the files are unchanged and the run ends normally.
C10_LinearPass ==
    IsMain
    => /\ Len(calls) <= Len(DriverOrder)
       /\ \A i \in 1..Len(calls) : calls[i] = DriverOrder[i]
       /\ pc \in {"fetched", "processed", "summarised", "saved", "done"}
            => Called("fetch_earthquake_data")
       /\ Called("process_data") => (raw_data # None /\ raw_data # Unbound)
       /\ Called("save_to_csv") => df.bound
       /\ (Called("fetch_earthquake_data") /\ raw_data = None /\ ~(pc = "crashed" /\ Len(calls) = 1))
            => /\ calls = <<"fetch_earthquake_data">>
               /\ pc \in {"fetched", "done"}
               /\ pc = "fetched" => (ENABLED MainNoData /\ ~ENABLED MainProcess)
               /\ pc = "done" => Printed("No se pudieron obtener datos")
               /\ files = files0
               /\ error = "none"

C10_Witness ==
    /\ IsMain
    /\ pc = "done"
    /\ reply.net = "ConnectionError"
    /\ raw_data = None
    /\ files0[DefaultFilename] = OldFile
    /\ files = files0

====
